---- MODULE Spec2Model ----
(***************************************************************************)
(* VIN bot (src/bot.py): the VIN acquisition and enrichment pipeline.      *)
(*                                                                         *)
(* One dispatcher thread handles one update at a time.  The model follows  *)
(* a handler step by step (pc) through process_vin_count,                  *)
(* scrape_vin_from_website, get_vin_info, get_fuel_capacity_from_gemini    *)
(* and send_batch_results / send_vin_info.                                 *)
(*                                                                         *)
(* Strings.  Short strings that the code inspects character by character   *)
(* (element texts, page markup, message texts) are sequences of one-       *)
(* character strings.  Rendered report text, which can be thousands of     *)
(* characters long, is a sequence of runs (tokens):                        *)
(*   [k |-> "t", s |-> label, n |-> length]  a piece of text that holds no  *)
(*                                           U+2500 and is not blank        *)
(*   [k |-> "w", s |-> <<>>,  n |-> length]  n newline characters           *)
(*   [k |-> "d", s |-> <<>>,  n |-> length]  n U+2500 (box drawing) chars   *)
(* kept in normal form (no empty run, no two adjacent "w" or "d" runs), so  *)
(* that two token texts are equal iff the strings are.                     *)
(***************************************************************************)
EXTENDS Integers, Sequences, FiniteSets, TLC

(* ---- bounds of the model (inputs the environment may produce) ---- *)
\* length of a long answer of the generative service (one block > 4000)
LongLen == 4100
\* length of a medium answer: two such blocks exceed 4000, one does not
MidLen == 2500

(* ---- program constants ---- *)
\* len(response_text) > 4000, bot.py:271
MaxMessage == 4000
\* "-" * 30 (U+2500), bot.py:266, 272
DelimLen == 30
\* len(vin_text) == 17, bot.py:113 ; {17} in the pattern, bot.py:124
VinLen == 17
\* if count > 2, bot.py:168 ; 1 <= count <= 2, bot.py:294
MaxCount == 2
\* button_selectors holds 4 entries, bot.py:66-72
NumButtonSelectors == 4
\* vin_selectors holds 8 entries: the first two literals (bot.py:96-97) are
\* adjacent without a comma, so Python joins them into one selector
NumVinSelectors == 8

(* ======================= character-level strings ======================= *)
Digits == {"0","1","2","3","4","5","6","7","8","9"}
UpperLetters == {"A","B","C","D","E","F","G","H","I","J","K","L","M",
                 "N","O","P","Q","R","S","T","U","V","W","X","Y","Z"}
LowerLetters == {"a","b","c","d","e","f","g","h","i","j","k","l","m",
                 "n","o","p","q","r","s","t","u","v","w","x","y","z"}
Whitespace == {" ", "\n", "\t"}

\* the character class [A-HJ-NPR-Z0-9] of vin_pattern
VinAlphabet == (UpperLetters \ {"I","O","Q"}) \cup Digits

\* str.isalnum(): non-empty and every character a letter or a digit
IsAlnum(s) ==
  /\ Len(s) > 0
  /\ \A j \in 1..Len(s) : s[j] \in Digits \cup UpperLetters \cup LowerLetters

\* str.isdigit(): non-empty and every character a digit
IsDigit(s) == Len(s) > 0 /\ \A j \in 1..Len(s) : s[j] \in Digits

\* str.strip(): drop leading and trailing whitespace
RECURSIVE LStrip(_)
LStrip(s) == IF Len(s) > 0 /\ s[1] \in Whitespace THEN LStrip(Tail(s)) ELSE s
RECURSIVE RStrip(_)
RStrip(s) ==
  IF Len(s) > 0 /\ s[Len(s)] \in Whitespace
  THEN RStrip(SubSeq(s, 1, Len(s) - 1)) ELSE s
Strip(s) == RStrip(LStrip(s))

\* str.replace(' ', ''): drop every space
RemoveSpaces(s) == SelectSeq(s, LAMBDA c : c # " ")

\* re.findall(r'[A-HJ-NPR-Z0-9]{17}', page_text): the start positions at
\* which VinLen characters of the class follow each other
MatchAt(s, p) ==
  /\ p + VinLen - 1 <= Len(s)
  /\ \A j \in 0..(VinLen - 1) : s[p + j] \in VinAlphabet
\* matches[0] when there is a match: the leftmost one; <<>> encodes "no match"
FirstMatch(s) ==
  LET starts == {p \in 1..Len(s) : MatchAt(s, p)}
  IN  IF starts = {} THEN <<>>
      ELSE LET p == CHOOSE q \in starts : \A r \in starts : q <= r
           IN  <<SubSeq(s, p, p + VinLen - 1)>>

(* ============================ token texts ============================== *)
T(label, n) == [k |-> "t", s |-> <<label>>, n |-> n]
W(n) == [k |-> "w", s |-> <<>>, n |-> n]
Dash(n) == [k |-> "d", s |-> <<>>, n |-> n]
\* a character-level string interpolated into rendered text
Chars(v) == [k |-> "t", s |-> v, n |-> Len(v)]

\* normal form: no empty run, adjacent runs of newlines / of U+2500 merged.
\* y is x without its empty runs; token j of y joins the run of token j - 1
\* when both are newlines or both are U+2500; the first token of a run takes
\* the sum of the run's lengths and the tokens that join it are dropped.
Norm(x) ==
  LET y == SelectSeq(x, LAMBDA t : t.n > 0)
      Joins(j) == j > 1 /\ y[j].k = y[j - 1].k /\ y[j].k \in {"w", "d"}
      RunLen[j \in 1..Len(y)] ==
        IF j < Len(y) /\ Joins(j + 1) THEN y[j].n + RunLen[j + 1] ELSE y[j].n
      z == [j \in 1..Len(y) |->
              [y[j] EXCEPT !.n = IF Joins(j) THEN 0 ELSE RunLen[j]]]
  IN  SelectSeq(z, LAMBDA t : t.n > 0)

\* string concatenation (+, +=, f-string)
Cat(a, b) == Norm(a \o b)

\* len(): the sum of the runs' lengths (of runs lo..hi, by halves)
RECURSIVE SumRuns(_, _, _)
SumRuns(x, lo, hi) ==
  IF lo > hi THEN 0
  ELSE IF lo = hi THEN x[lo].n
  ELSE SumRuns(x, lo, (lo + hi) \div 2) + SumRuns(x, (lo + hi) \div 2 + 1, hi)
TextLen(x) == SumRuns(x, 1, Len(x))

\* bool(part.strip()): some character is not whitespace
NonBlank(x) == \E j \in 1..Len(x) : x[j].k # "w" /\ x[j].n > 0

\* str.strip() of a token text: drop the leading and trailing newline runs
TrimText(x) ==
  LET y == Norm(x)
      a == IF y # <<>> /\ y[1].k = "w" THEN Tail(y) ELSE y
  IN  IF a # <<>> /\ a[Len(a)].k = "w" THEN SubSeq(a, 1, Len(a) - 1) ELSE a

\* str(int) of a small non-negative number
NumStr(v) == <<T(ToString(v), IF v < 10 THEN 1 ELSE 2)>>

\* "-" * 30 with U+2500, bot.py:266
Delimiter == <<Dash(DelimLen)>>

\* response_text.split(delimiter): scan left to right; a run of n U+2500
\* holds n \div 30 non-overlapping delimiters and leaves n % 30 characters
\* at the start of the following part.  lead is what the last delimiter run
\* left over, x the text after it.
RECURSIVE Empties(_)
Empties(m) == IF m <= 0 THEN <<>> ELSE <<(<<>>)>> \o Empties(m - 1)
RECURSIVE SplitFrom(_, _)
SplitFrom(x, lead) ==
  LET ds == {j \in 1..Len(x) : x[j].k = "d" /\ x[j].n >= DelimLen}
  IN  IF ds = {} THEN <<lead \o x>>
      ELSE LET d == CHOOSE j \in ds : \A m \in ds : j <= m
               q == x[d].n \div DelimLen
               r == x[d].n % DelimLen
           IN  <<lead \o SubSeq(x, 1, d - 1)>> \o Empties(q - 1)
               \o SplitFrom(SubSeq(x, d + 1, Len(x)),
                             IF r > 0 THEN <<Dash(r)>> ELSE <<>>)
Split(x) == SplitFrom(Norm(x), <<>>)

(* =========================== report rendering ========================== *)
\* Option values: <<>> is None, <<v>> is the value v.
None == <<>>
Some(v) == <<v>>

\* the error texts of process_vin_count, bot.py:184, 201
ScrapeError == <<T("Failed to scrape VIN from website", 33)>>
DecodeError == <<T("Failed to decode VIN", 20)>>

\* one result's block: bot.py:251-266 (the marks are one character each)
RenderItem(result) ==
  LET head == <<T("**VIN #", 7)>> \o NumStr(result.index) \o <<T(":**", 3), W(1)>>
      body ==
        IF "error" \in DOMAIN result
        THEN <<T("(cross) ", 2)>> \o result.error \o <<W(1)>>
             \o (IF "vin" \in DOMAIN result
                 THEN <<T("VIN: ", 5), Chars(result.vin), W(1)>> ELSE <<>>)
        ELSE <<T("(check) **VIN:** ", 11), Chars(result.vin), W(1)>>
             \o <<T("**Make:** ", 10)>> \o result.info.make \o <<W(1)>>
             \o <<T("**Model:** ", 11)>> \o result.info.model \o <<W(1)>>
             \o <<T("**Year:** ", 10)>> \o result.info.year \o <<W(1)>>
             \o <<T("**Fuel Capacity:** ", 19)>> \o result.info.fuel_capacity
             \o <<W(1)>>
  IN  Norm(head \o body \o <<W(1)>> \o Delimiter \o <<W(2)>>)

\* a variant that counts every entry
SuccessCount_All(results) == Len(results)

\* success_count, bot.py:249, 264
SuccessCount(results) ==
  Cardinality({j \in 1..Len(results) : "error" \notin DOMAIN results[j]})

\* the summary line, bot.py:268
Summary(results) ==
  <<T("(chart) **Summary:** ", 15)>> \o NumStr(SuccessCount(results))
  \o <<T("/", 1)>> \o NumStr(Len(results))
  \o <<T(" VINs processed successfully", 28)>>

RECURSIVE RenderItems(_)
RenderItems(results) ==
  IF results = <<>> THEN <<>>
  ELSE RenderItem(Head(results)) \o RenderItems(Tail(results))

\* response_text, bot.py:247-268
ResponseText(results) ==
  Norm(<<T("(car) **VIN Processing Results**", 28), W(2)>>
       \o RenderItems(results) \o Summary(results))

\* the loop of bot.py:273-280 from part number j on: a blank part is skipped,
\* the last part is sent as it is, every other part with the delimiter put back
RECURSIVE SendParts(_, _)
SendParts(parts, j) ==
  IF j > Len(parts) THEN <<>>
  ELSE LET piece == IF j = 1 THEN Cat(parts[j], Delimiter)
                    ELSE IF j = Len(parts) THEN parts[j]
                    ELSE Cat(parts[j], Delimiter)
       IN  (IF NonBlank(parts[j]) THEN <<piece>> ELSE <<>>)
           \o SendParts(parts, j + 1)

\* the messages of bot.py:270-282, in the order they are sent
Chunks(text) ==
  IF TextLen(text) > MaxMessage THEN SendParts(Split(text), 1) ELSE <<text>>

\* update.message.reply_text(...): one outgoing message
Reply(kind, a, b, text) == [kind |-> kind, a |-> a, b |-> b, text |-> text]

RECURSIVE AsReplies(_, _, _)
AsReplies(cs, m, total) ==
  IF cs = <<>> THEN <<>>
  ELSE <<Reply("chunk", m, total, Head(cs))>> \o AsReplies(Tail(cs), m + 1, total)

\* send_batch_results, bot.py:239-282: the messages it sends
SendBatchResults(results) ==
  IF results = <<>> THEN <<Reply("no_results", 0, 0, <<>>)>>
  ELSE LET cs == Chunks(ResponseText(results))
       IN  AsReplies(cs, 1, Len(cs))

(* ====================== what the environment supplies ================== *)
Users == {"u1", "u2"}

\* the spec's example VIN, 1HGCM82633A004352
VIN_OK == <<"1","H","G","C","M","8","2","6","3","3","A","0","0","4","3","5","2">>

\* element texts a located element may show (vin_element.text)
ElementTexts ==
  { VIN_OK,
    \* the VIN between blanks and a newline
    <<" ">> \o VIN_OK \o <<"\n">>,
    \* 17 letters and digits, the last one the letter O
    <<"1","H","G","C","M","8","2","6","3","3","A","0","0","4","3","5","O">>,
    \* 17 characters with a space inside
    <<"1","H","G"," ","C","M","8","2","6","3","3","A","0","0","4","3","5">>,
    \* a label, no VIN
    <<"R","e","s","u","l","t",":">>,
    <<>> }

\* rendered page markup (driver.page_source)
PageSources ==
  { <<"<","p",">">> \o VIN_OK \o <<"<","/","p",">">>,
    \* a 20-character token of the VIN alphabet that is no VIN
    <<"i","d","=">> \o <<"A","B","C">> \o VIN_OK \o <<";">>,
    <<"<","h","t","m","l",">">> }

\* text messages a user may send (update.message.text)
MessageTexts ==
  { <<"1">>, <<"2">>, <<" ","2","\n">>, <<"0">>, <<"3">>, <<"0","1">>,
    <<"1","2">>, <<"h","i">>, VIN_OK }

\* values of a field of the decode service's first result record
NA == <<T("N/A", 3)>>
MakeValues == {NA, <<T("Honda", 5)>>}
ModelValues == {NA, <<T("Accord", 6)>>}
YearValues == {NA, <<T("2003", 4)>>}

\* the record as a dict: a field that is None is absent from the record
RecordOf(mk, md, yr) ==
  LET keys == (IF mk = None THEN {} ELSE {"Make"})
              \cup (IF md = None THEN {} ELSE {"Model"})
              \cup (IF yr = None THEN {} ELSE {"ModelYear"})
  IN  [key \in keys |-> IF key = "Make" THEN mk[1]
                        ELSE IF key = "Model" THEN md[1] ELSE yr[1]]
Option(S) == {None} \cup {Some(v) : v \in S}
ResultRecords ==
  { RecordOf(mk, md, yr) :
      mk \in Option(MakeValues), md \in Option(ModelValues), yr \in Option(YearValues) }

\* what requests.get / response.json / data["Results"][0] may do:
\* a record, or an exception raised at one of the steps of bot.py:212-218
DecodeRaises == {"http", "json", "results", "record"}

\* response.text of the generative service when it is a non-empty string
ResponseTexts ==
  { <<T("17.1 gallons", 12)>>,
    <<W(1), T("17.1 gallons", 12), W(1)>>,
    <<W(2)>>,
    <<T("long answer", LongLen)>>,
    <<T("medium answer", MidLen)>>,
    <<T("medium answer", MidLen), W(1), Dash(2 * DelimLen)>> }

\* str(e) of an exception raised by the generative service
ErrorDetails == {<<T("quota exceeded", 14)>>}

\* what model.generate_content / response.text may do: raise, a falsy
\* response, a response without text, an empty text, a text
GeminiOutcomes ==
  {[kind |-> "raises", text |-> d] : d \in ErrorDetails}
  \cup {[kind |-> kd, text |-> <<>>] : kd \in {"none", "notext", "empty"}}
  \cup {[kind |-> "text", text |-> t] : t \in ResponseTexts}

(* ============================ pure functions =========================== *)
\* Python truth of an optional string: None and "" are false
Truthy(opt) == opt # None /\ opt[1] # <<>>

\* int(message_text) of a string of digits
DigitValue(c) == CHOOSE v \in 0..9 : ToString(v) = c
RECURSIVE IntOf(_)
IntOf(s) ==
  IF s = <<>> THEN 0
  ELSE 10 * IntOf(SubSeq(s, 1, Len(s) - 1)) + DigitValue(s[Len(s)])

\* the acceptance test of a located element's text, bot.py:113
AcceptsVinText(vin_text) ==
  Len(vin_text) = VinLen /\ IsAlnum(RemoveSpaces(vin_text))

\* result.get(key, "N/A"), bot.py:216-218
Get(rec, key) == IF key \in DOMAIN rec THEN rec[key] ELSE NA

\* a variant of the test of bot.py:222 that fails only when all three are "N/A"
DecodeFails_All(make, model_name, year) ==
  make = NA /\ model_name = NA /\ year = NA

\* a variant that tests the make alone
DecodeFails_MakeOnly(make, model_name, year) == make = NA

\* the test of bot.py:222
DecodeFails(make, model_name, year) == make = NA \/ model_name = NA \/ year = NA

\* a variant that returns the response text as it came
GetFuelCapacity_Untrimmed(key, mdl, outcome) ==
  IF ~Truthy(key) THEN <<T("API key not configured", 22)>>
  ELSE IF outcome.kind = "text" THEN outcome.text
  ELSE <<T("Unable to retrieve fuel capacity from AI", 40)>>

\* get_fuel_capacity_from_gemini, bot.py:301-330: the string it returns for the
\* two globals and what the service does when it is queried
GetFuelCapacity(key, mdl, outcome) ==
  IF ~Truthy(key) THEN <<T("API key not configured", 22)>>
  ELSE IF mdl = None THEN <<T("Gemini model not initialized", 28)>>
  ELSE IF outcome.kind = "raises"
       THEN Cat(<<T("Error retrieving fuel capacity: ", 32)>>, outcome.text)
  ELSE IF outcome.kind = "text" THEN TrimText(outcome.text)
  ELSE <<T("Unable to retrieve fuel capacity from AI", 40)>>

\* how many times that call runs model.generate_content, bot.py:316
QueriesMade(key, mdl) == IF Truthy(key) /\ mdl # None THEN 1 ELSE 0

\* the try blocks: the handler an exception raised at a call site reaches.
\* bot.py:53-134 encloses the driver calls, bot.py:211-237 the decode calls;
\* an exception raised anywhere else leaves the handler function.
ScrapeTrySites == {"chrome", "get", "click", "page_source"}
\* a variant in which get_vin_info catches the request's exceptions only
Handler_RequestOnly(site) ==
  IF site \in ScrapeTrySites THEN "scrape_except"
  ELSE IF site = "http" THEN "decode_except"
  ELSE "crashed"
Handler(site) ==
  IF site \in ScrapeTrySites THEN "scrape_except"
  ELSE IF site \in DecodeRaises THEN "decode_except"
  ELSE "crashed"

\* a variant that walks the list from its last entry
SelectorAt_Reversed(k) == NumButtonSelectors + 1 - k

\* button_selectors[k - 1]: the strategy tried in the k-th pass, bot.py:66-75
\* (a strategy is named by its priority, 1 first)
SelectorAt(k) == k

\* a variant without the quit of the finally block
ShouldQuit_Never(drv) == FALSE

\* the test of the finally block, bot.py:136: quit the driver that was created
ShouldQuit(drv) == drv = "open"

\* a variant that logs every failure at the same level
FailureLog_Warning(raised) == "warning"

\* the level of the record get_vin_info logs when it fails: logger.warning
\* for a field that is "N/A" (bot.py:223), logger.error for an exception
\* (bot.py:236)
FailureLog(raised) == IF raised THEN "error" ELSE "warning"

\* one failed call of get_vin_info: the value it returned (bot.py:224, 237),
\* the cause ("invalid": a field was "N/A"; "unavailable": a step raised) and
\* the level of the record it logged
Failure(value, cause, log) == [value |-> value, cause |-> cause, log |-> log]

\* the entries process_vin_count appends, bot.py:182-185, 192-196, 198-202
ScrapeFailureEntry(idx) == [index |-> idx, error |-> ScrapeError]
\* a variant that numbers the entries from 0
SuccessEntry_ZeroBased(idx, v, inf) == [index |-> idx - 1, vin |-> v, info |-> inf]
SuccessEntry(idx, v, inf) == [index |-> idx, vin |-> v, info |-> inf]
\* a variant that records the failure without the VIN
DecodeFailureEntry_NoVin(idx, v) == [index |-> idx, error |-> DecodeError]
DecodeFailureEntry(idx, v) == [index |-> idx, vin |-> v, error |-> DecodeError]

\* no call of the generative service was made
NoOutcome == [kind |-> "unasked", text |-> <<>>]

\* the reply of send_vin_info on success, bot.py:344-353
VehicleText(v, inf) ==
  Norm(<<T("(car) **Vehicle Information**", 27), W(2)>>
       \o <<T("**VIN:** ", 9), Chars(v), W(1)>>
       \o <<T("**Make:** ", 10)>> \o inf.make \o <<W(1)>>
       \o <<T("**Model:** ", 11)>> \o inf.model \o <<W(1)>>
       \o <<T("**Year:** ", 10)>> \o inf.year \o <<W(1)>>
       \o <<T("**Fuel Tank Capacity:** ", 24)>> \o inf.fuel_capacity)

(* ================================ state ================================ *)
VARIABLES
  GEMINI_API_KEY,  \* bot.py:18: None, "" or a key
  model,           \* bot.py:22-25: the generative client, or None
  expecting_vin,   \* context.user_data["expecting_vin"], per user
  pc,              \* where the dispatcher thread is
  mode,            \* "none", "batch" (process_vin_count), "manual" (send_vin_info)
  user,            \* the user of the update being handled
  count, i,        \* process_vin_count: count and the loop variable
  results,         \* process_vin_count: results
  vin,             \* the VIN at hand: None or Some(characters)
  driver,          \* scrape: "none" (None), "open", "quit"
  button,          \* scrape: 0 (None) or the strategy that found the button
  sel,             \* scrape: the pass of the button loop (1..4)
  vsel,            \* scrape: the pass of the VIN loop (1..8)
  open_sessions,   \* the browser sessions (driver processes) that are open
  vehicle,         \* get_vin_info: None or Some([make, model, year])
  info,            \* get_vin_info's return value: None or Some(dict)
  outbox,          \* the replies sent for this update, in order
  \* history variables: what happened, for the properties below
  tried,           \* the button strategies tried by this scrape call, in order
  clicked,         \* 0, or the strategy whose element was clicked
  scrapes,         \* scrape calls made while handling this update
  record,          \* the record the decode service returned, or None
  decode_log,      \* the level get_vin_info logged at when it failed
  outcome,         \* what the generative service did in the last enrich call
  accepted,        \* the element text that passed the test of bot.py:113, or None
  message_text,    \* update.message.text.strip() of the update being handled
  decode_failures, \* the failed get_vin_info calls of this update: what each
                   \* returned, why it failed and the level it logged at
  queries          \* generate_content calls made by the last enrich call

vars == <<GEMINI_API_KEY, model, expecting_vin, pc, mode, user, count, i, results,
          vin, driver, button, sel, vsel, open_sessions, vehicle, info, outbox,
          tried, clicked, scrapes, record, decode_log, outcome, queries,
          decode_failures, accepted, message_text>>

globals == <<GEMINI_API_KEY, model>>
batchVars == <<mode, user, count, i, results, scrapes>>
scrapeVars == <<driver, button, sel, vsel, tried, clicked, accepted>>
decodeVars == <<vehicle, info, record, decode_log, outcome, queries>>

ApiKeys == {None, Some(<<>>), Some(<<"k","e","y">>)}

\* module start, bot.py:16-25
Init ==
  /\ GEMINI_API_KEY \in ApiKeys
  /\ model = IF Truthy(GEMINI_API_KEY) THEN Some("GenerativeModel") ELSE None
  /\ expecting_vin = [u \in Users |-> FALSE]
  /\ pc = "idle"
  /\ mode = "none"
  /\ user = CHOOSE u \in Users : TRUE
  /\ count = 0 /\ i = 0 /\ results = <<>> /\ scrapes = 0
  /\ vin = None
  /\ driver = "none" /\ button = 0 /\ sel = 1 /\ vsel = 1
  /\ tried = <<>> /\ clicked = 0
  /\ open_sessions = 0
  /\ vehicle = None /\ info = None /\ record = None /\ decode_log = "none"
  /\ outcome = NoOutcome /\ queries = 0
  /\ decode_failures = {}
  /\ accepted = None /\ message_text = <<>>
  /\ outbox = <<>>

\* Locals that the code no longer reads are put back to their initial value
\* (the loop variables when a loop ends, a call's locals when it has returned,
\* an iteration's locals when the iteration ends), and so are the history
\* variables that describe them.
FreshScrape ==
  /\ driver' = "none" /\ button' = 0 /\ sel' = 1 /\ vsel' = 1
  /\ tried' = <<>> /\ clicked' = 0 /\ accepted' = None
FreshDecode ==
  /\ vehicle' = None /\ info' = None /\ record' = None /\ decode_log' = "none"
  /\ outcome' = NoOutcome /\ queries' = 0

(* =============================== handlers ============================== *)
\* a variant without the upper limit
CountAccepted_NoLimit(c) == 1 <= c

\* if 1 <= count <= 2, bot.py:294
CountAccepted(c) == 1 <= c /\ c <= 2

\* a variant that leaves the flag as it is
ClearFlag_Keep(flags, u) == flags

\* context.user_data['expecting_vin'] = False, bot.py:288
ClearFlag(flags, u) == [flags EXCEPT ![u] = FALSE]

\* /checkvin, bot.py:160-162
CheckVin(u) ==
  /\ pc = "idle"
  /\ user' = u
  /\ outbox' = <<Reply("prompt_vin", 0, 0, <<>>)>>
  /\ expecting_vin' = [expecting_vin EXCEPT ![u] = TRUE]
  /\ mode' = "none" /\ count' = 0 /\ i' = 0 /\ results' = <<>> /\ scrapes' = 0
  /\ vin' = None
  /\ FreshScrape
  /\ FreshDecode
  /\ decode_failures' = {}
  /\ message_text' = <<>>
  /\ UNCHANGED <<globals, pc, open_sessions>>

\* a text message that is no command, bot.py:284-299, up to the first blocking
\* call of the function it dispatches to (send_vin_info bot.py:336,
\* process_vin_count bot.py:168-176)
HandleMessage(u, text) ==
  /\ pc = "idle"
  /\ message_text' = Strip(text)
  /\ user' = u
  /\ i' = 0 /\ results' = <<>> /\ scrapes' = 0
  /\ FreshScrape
  /\ FreshDecode
  /\ decode_failures' = {}
  /\ UNCHANGED <<globals, open_sessions>>
  /\ IF expecting_vin[u]
     THEN /\ expecting_vin' = ClearFlag(expecting_vin, u)
          /\ outbox' = <<Reply("decoding", 0, 0, <<>>)>>
          /\ vin' = Some(message_text')
          /\ mode' = "manual"
          /\ count' = 0
          /\ pc' = "decode"
     ELSE /\ UNCHANGED expecting_vin
          /\ vin' = None
          /\ IF IsDigit(message_text')
             THEN IF CountAccepted(IntOf(message_text'))
                  THEN \* process_vin_count(update, count)
                       /\ count' = IntOf(message_text')
                       /\ IF IntOf(message_text') > MaxCount
                          THEN /\ outbox' = <<Reply("max2", 0, 0, <<>>)>>
                               /\ mode' = "none"
                               /\ pc' = "idle"
                          ELSE /\ outbox' = <<Reply("starting", IntOf(message_text'),
                                                    0, <<>>)>>
                               /\ mode' = "batch"
                               /\ pc' = IF 0 < IntOf(message_text')
                                        THEN "progress" ELSE "send"
                  ELSE /\ outbox' = <<Reply("reject_count", 0, 0, <<>>)>>
                       /\ count' = 0 /\ mode' = "none" /\ pc' = "idle"
             ELSE /\ outbox' = <<Reply("hint", 0, 0, <<>>)>>
                  /\ count' = 0 /\ mode' = "none" /\ pc' = "idle"

\* an exception raised at a call site: control goes to the enclosing handler
Raise(site) == pc' = Handler(site)

\* a variant that leaves the loop after the first item
NextItem_Break ==
  /\ i' = i + 1
  /\ pc' = "send"

\* the end of one pass of the loop of bot.py:176 (continue, or the end of the body)
NextItem ==
  /\ i' = i + 1
  /\ pc' = IF i + 1 < count THEN "progress" ELSE "send"

\* a variant that begins the scrape call without the progress message
Progress_Silent ==
  /\ pc = "progress"
  /\ UNCHANGED message_text
  /\ UNCHANGED decode_failures
  /\ UNCHANGED outbox
  /\ scrapes' = scrapes + 1
  /\ vin' = None
  /\ FreshScrape
  /\ pc' = "chrome"
  /\ UNCHANGED <<globals, expecting_vin, mode, user, count, i, results,
                 open_sessions, decodeVars>>

\* bot.py:177-179 and 52: the progress message, then the scrape call begins
Progress ==
  /\ pc = "progress"
  /\ UNCHANGED message_text
  /\ UNCHANGED decode_failures
  /\ outbox' = Append(outbox, Reply("progress", i + 1, count, <<>>))
  /\ scrapes' = scrapes + 1
  /\ vin' = None
  /\ FreshScrape
  /\ pc' = "chrome"
  /\ UNCHANGED <<globals, expecting_vin, mode, user, count, i, results,
                 open_sessions, decodeVars>>

\* webdriver.Chrome(options=...), bot.py:56
StartChrome ==
  /\ pc = "chrome"
  /\ UNCHANGED accepted
  /\ UNCHANGED message_text
  /\ UNCHANGED decode_failures
  /\ \E ok \in BOOLEAN :
       IF ok THEN /\ driver' = "open"
                  /\ open_sessions' = open_sessions + 1
                  /\ pc' = "navigate"
             ELSE /\ Raise("chrome")
                  /\ UNCHANGED <<driver, open_sessions>>
  /\ UNCHANGED <<globals, expecting_vin, batchVars, vin, button, sel, vsel,
                 tried, clicked, decodeVars, outbox>>

\* driver.get(VIN_WEBSITE_URL), bot.py:59
Navigate ==
  /\ pc = "navigate"
  /\ UNCHANGED message_text
  /\ UNCHANGED decode_failures
  /\ \E ok \in BOOLEAN : IF ok THEN pc' = "locate" ELSE Raise("get")
  /\ UNCHANGED <<globals, expecting_vin, batchVars, vin, scrapeVars,
                 open_sessions, decodeVars, outbox>>

\* one pass of the loop of bot.py:75-81, and bot.py:83-85 when the list is
\* exhausted.  found: wait.until returned an element; otherwise it raised
\* (timeout, invalid selector) and the bare except continues the loop.
LocateButton ==
  /\ pc = "locate"
  /\ UNCHANGED accepted
  /\ UNCHANGED message_text
  /\ UNCHANGED decode_failures
  /\ tried' = Append(tried, SelectorAt(sel))
  /\ \E found \in BOOLEAN :
       IF found
       THEN /\ button' = SelectorAt(sel)
            /\ pc' = "click"
            /\ sel' = 1
       ELSE /\ UNCHANGED button
            /\ IF sel < NumButtonSelectors
               THEN sel' = sel + 1 /\ pc' = "locate"
               ELSE sel' = 1 /\ pc' = "finally"
  /\ UNCHANGED <<globals, expecting_vin, batchVars, vin, driver, vsel, clicked,
                 open_sessions, decodeVars, outbox>>

\* driver.execute_script("arguments[0].click();", button); time.sleep(2),
\* bot.py:88-92
Click ==
  /\ pc = "click"
  /\ UNCHANGED accepted
  /\ UNCHANGED message_text
  /\ UNCHANGED decode_failures
  /\ \E ok \in BOOLEAN :
       IF ok THEN clicked' = button /\ pc' = "read"
             ELSE Raise("click") /\ UNCHANGED clicked
  /\ UNCHANGED <<globals, expecting_vin, batchVars, vin, driver, button, sel,
                 vsel, tried, open_sessions, decodeVars, outbox>>

\* one pass of the loop of bot.py:108-118.  el = None: find_element or .text
\* raised and the bare except continues; otherwise el is the element's text.
\* An accepted text ends the loop, skips bot.py:120-128 and is returned.
ReadVin ==
  /\ pc = "read"
  /\ UNCHANGED message_text
  /\ UNCHANGED decode_failures
  /\ \E el \in Option(ElementTexts) :
       IF el # None /\ AcceptsVinText(Strip(el[1]))
       THEN /\ vin' = Some(RemoveSpaces(Strip(el[1])))
            /\ accepted' = Some(Strip(el[1]))
            /\ pc' = "finally"
            /\ vsel' = 1
       ELSE /\ UNCHANGED <<vin, accepted>>
            /\ IF vsel < NumVinSelectors
               THEN vsel' = vsel + 1 /\ pc' = "read"
               ELSE vsel' = 1 /\ pc' = "fallback"
  /\ UNCHANGED <<globals, expecting_vin, batchVars, driver, button, sel, tried,
                 clicked, open_sessions, decodeVars, outbox>>

\* bot.py:120-130: the pattern search over driver.page_source
Fallback ==
  /\ pc = "fallback"
  /\ UNCHANGED message_text
  /\ UNCHANGED decode_failures
  /\ \E page \in Option(PageSources) :
       IF page = None THEN Raise("page_source") /\ UNCHANGED vin
       ELSE vin' = FirstMatch(page[1]) /\ pc' = "finally"
  /\ UNCHANGED <<globals, expecting_vin, batchVars, scrapeVars, open_sessions,
                 decodeVars, outbox>>

\* except Exception: return None, bot.py:132-134
ScrapeExcept ==
  /\ pc = "scrape_except"
  /\ UNCHANGED message_text
  /\ UNCHANGED decode_failures
  /\ vin' = None
  /\ pc' = "finally"
  /\ UNCHANGED <<globals, expecting_vin, batchVars, scrapeVars, open_sessions,
                 decodeVars, outbox>>

\* finally: if driver: driver.quit(), bot.py:135-137; the call returns
ScrapeFinally ==
  /\ pc = "finally"
  /\ UNCHANGED accepted
  /\ UNCHANGED message_text
  /\ UNCHANGED decode_failures
  /\ IF ShouldQuit(driver)
     THEN driver' = "quit" /\ open_sessions' = open_sessions - 1
     ELSE UNCHANGED <<driver, open_sessions>>
  /\ pc' = "scraped"
  /\ UNCHANGED <<globals, expecting_vin, batchVars, vin, button, sel, vsel,
                 tried, clicked, decodeVars, outbox>>

\* bot.py:179-189: the scrape call has returned
AfterScrape ==
  /\ pc = "scraped"
  /\ UNCHANGED message_text
  /\ UNCHANGED decode_failures
  /\ IF ~Truthy(vin)
     THEN /\ results' = Append(results, ScrapeFailureEntry(i + 1))
          /\ NextItem
     ELSE /\ pc' = "decode"
          /\ UNCHANGED <<results, i>>
  /\ FreshScrape
  /\ UNCHANGED <<globals, expecting_vin, mode, user, count, scrapes, vin,
                 open_sessions, decodeVars, outbox>>

\* get_vin_info up to the test of bot.py:222: the request, the parse, the
\* first record, the three fields; either one of those steps raises or the
\* service's first record is rec
Decode ==
  /\ pc = "decode"
  /\ UNCHANGED message_text
  /\ \/ \E site \in DecodeRaises :
          /\ Raise(site)
          /\ UNCHANGED <<vehicle, info, record, decode_log, decode_failures>>
     \/ \E rec \in ResultRecords :
          LET make == Get(rec, "Make")
              model_name == Get(rec, "Model")
              year == Get(rec, "ModelYear")
          IN  /\ record' = Some(rec)
              /\ IF DecodeFails(make, model_name, year)
                 THEN /\ decode_log' = FailureLog(FALSE)
                      /\ info' = None
                      /\ decode_failures' = decode_failures \cup
                           {Failure(None, "invalid", FailureLog(FALSE))}
                      /\ pc' = "decoded"
                      /\ UNCHANGED vehicle
                 ELSE /\ vehicle' = Some([make |-> make, model |-> model_name,
                                          year |-> year])
                      /\ pc' = "enrich"
                      /\ UNCHANGED <<info, decode_log, decode_failures>>
  /\ UNCHANGED <<globals, expecting_vin, batchVars, vin, scrapeVars,
                 open_sessions, outcome, queries, outbox>>

\* except Exception: return None, bot.py:235-237
DecodeExcept ==
  /\ pc = "decode_except"
  /\ UNCHANGED message_text
  /\ decode_log' = FailureLog(TRUE)
  /\ info' = None
  /\ decode_failures' = decode_failures \cup
       {Failure(None, "unavailable", FailureLog(TRUE))}
  /\ pc' = "decoded"
  /\ UNCHANGED <<globals, expecting_vin, batchVars, vin, scrapeVars,
                 open_sessions, vehicle, record, outcome, queries, outbox>>

\* bot.py:226-233: the call of get_fuel_capacity_from_gemini and the dict
\* get_vin_info returns
Enrich ==
  /\ pc = "enrich"
  /\ UNCHANGED message_text
  /\ UNCHANGED decode_failures
  /\ queries' = QueriesMade(GEMINI_API_KEY, model)
  /\ \E o \in (IF QueriesMade(GEMINI_API_KEY, model) > 0
               THEN GeminiOutcomes ELSE {NoOutcome}) :
       /\ outcome' = o
       /\ info' = Some([make |-> vehicle[1].make, model |-> vehicle[1].model,
                        year |-> vehicle[1].year,
                        fuel_capacity |->
                          GetFuelCapacity(GEMINI_API_KEY, model, o)])
  /\ pc' = "decoded"
  /\ UNCHANGED <<globals, expecting_vin, batchVars, vin, scrapeVars,
                 open_sessions, vehicle, record, decode_log, outbox>>

\* bot.py:189-202: get_vin_info has returned to process_vin_count
RecordDecode ==
  /\ pc = "decoded"
  /\ UNCHANGED message_text
  /\ UNCHANGED decode_failures
  /\ mode = "batch"
  /\ results' = Append(results,
       IF info # None THEN SuccessEntry(i + 1, vin[1], info[1])
       ELSE DecodeFailureEntry(i + 1, vin[1]))
  /\ NextItem
  /\ vin' = None
  /\ FreshDecode
  /\ UNCHANGED <<globals, expecting_vin, mode, user, count, scrapes, scrapeVars,
                 open_sessions, outbox>>

\* send_batch_results(update, results), bot.py:204, 239-282
SendResults ==
  /\ pc = "send"
  /\ UNCHANGED message_text
  /\ UNCHANGED decode_failures
  /\ outbox' = outbox \o SendBatchResults(results)
  /\ pc' = "idle"
  /\ UNCHANGED <<globals, expecting_vin, batchVars, vin, scrapeVars,
                 open_sessions, decodeVars>>

\* bot.py:338-353: get_vin_info has returned to send_vin_info
SendVinInfo ==
  /\ pc = "decoded"
  /\ UNCHANGED message_text
  /\ UNCHANGED decode_failures
  /\ mode = "manual"
  /\ outbox' = Append(outbox,
       IF info = None THEN Reply("invalid_vin", 0, 0, <<>>)
       ELSE Reply("vehicle_info", 0, 0, VehicleText(vin[1], info[1])))
  /\ pc' = "idle"
  /\ UNCHANGED <<globals, expecting_vin, batchVars, vin, scrapeVars,
                 open_sessions, decodeVars>>

Next ==
  \/ \E u \in Users : CheckVin(u)
  \/ \E u \in Users : \E text \in MessageTexts : HandleMessage(u, text)
  \/ Progress
  \/ StartChrome
  \/ Navigate
  \/ LocateButton
  \/ Click
  \/ ReadVin
  \/ Fallback
  \/ ScrapeExcept
  \/ ScrapeFinally
  \/ AfterScrape
  \/ Decode
  \/ DecodeExcept
  \/ Enrich
  \/ RecordDecode
  \/ SendResults
  \/ SendVinInfo

Spec == Init /\ [][Next]_vars

(* ============================== properties ============================= *)
\* the batch has handed (or is about to hand) its results to send_batch_results
BatchDone == mode = "batch" /\ pc \in {"send", "idle"}
ScrapePcs == {"chrome", "navigate", "locate", "click", "read", "fallback",
              "scrape_except", "finally"}
Keys == {"Make", "Model", "ModelYear"}

(* ---- C1 ---- *)
C1_Entries ==
  mode = "batch" =>
    /\ count \in 1..MaxCount
    /\ \A j \in 1..Len(results) : results[j].index = j
    /\ pc \in {"send", "idle"} => Len(results) = count
    /\ pc \notin {"send", "idle"} => Len(results) = i /\ i < count
C1_Once ==
  \/ results' = results
  \/ pc = "idle" /\ results' = <<>>
  \/ /\ Len(results') = Len(results) + 1
     /\ SubSeq(results', 1, Len(results)) = results
\* C1: for count 1 or 2 and whatever the scrape, decode and enrich outcomes,
\* send_batch_results receives exactly count entries whose indices are
\* 1..count in increasing order; while the loop runs there is one entry per
\* finished item; an entry once appended is never changed or appended again.
C1_BatchEntries == [](C1_Entries) /\ [][C1_Once]_vars
\* a batch of two has ended with a failure for item 1 and a success for item 2
C1_Witness ==
  /\ mode = "batch" /\ pc = "idle" /\ count = 2 /\ Len(results) = 2
  /\ "error" \in DOMAIN results[1]
  /\ "info" \in DOMAIN results[2]

(* ---- C2 ---- *)
C2_Step ==
  (pc = "scraped" /\ ~Truthy(vin)) =>
    /\ results' = Append(results, [index |-> i + 1, error |-> ScrapeError])
    /\ pc' = IF i + 1 < count THEN "progress" ELSE "send"
C2_Continues ==
  /\ (mode = "batch" /\ pc = "progress") => scrapes = i /\ i < count
  /\ BatchDone => scrapes = count /\ Len(results) = count
\* C2: when the scraper returns None for item i the entry appended for index
\* i is exactly {index: i, error: "Failed to scrape VIN from website"}, with
\* no VIN, and the loop goes on: every index up to count is scraped (one
\* scrape call per index) and recorded, whatever happened to earlier items.
C2_ScrapeFailureIsolated == [](C2_Continues) /\ [][C2_Step]_vars
\* item 1 of 2 failed to scrape, item 2 was scraped, decoded and enriched
C2_Witness ==
  /\ mode = "batch" /\ pc = "idle" /\ count = 2 /\ scrapes = 2
  /\ Len(results) = 2
  /\ results[1] = [index |-> 1, error |-> ScrapeError]
  /\ "info" \in DOMAIN results[2]

(* ---- C3 ---- *)
\* the places at which some step of a handler is enabled
HandledPcs == {"idle", "progress", "decode", "enrich", "decoded", "send",
               "decode_except", "scraped"} \cup ScrapePcs
Structured(e) ==
  DOMAIN e \in {{"index", "error"}, {"index", "vin", "error"},
                {"index", "vin", "info"}}
\* C3: no exception leaves process_vin_count: whichever call raises, control
\* reaches an except block of the function that made the call, the handler
\* is never stuck before it has returned, the item at hand is still
\* to be recorded when the except block runs, and send_batch_results gets a
\* structured entry for every item.
C3_NoExceptionEscapes ==
  /\ pc # "crashed"
  /\ pc \in HandledPcs
  /\ pc = "decoded" => mode \in {"batch", "manual"}
  /\ (mode = "batch" /\ pc \in {"scrape_except", "decode_except"}) =>
       Len(results) = i /\ i < count
  /\ BatchDone =>
       /\ Len(results) = count
       /\ \A j \in 1..Len(results) : Structured(results[j])
\* the decode call of item 2 raised, was caught, and the loop is about to
\* record the item
C3_Witness ==
  /\ mode = "batch" /\ pc = "decoded" /\ decode_log = "error" /\ i = 1
  /\ Len(results) = 1

(* ---- C4 ---- *)
\* C4: at most one browser session is open; one is open exactly while the
\* scrape call that created it has not run its finally block; none is open
\* when a scrape call begins, when it has returned, or outside scrape calls.
C4_SessionReleased ==
  /\ open_sessions \in {0, 1}
  /\ open_sessions = 1 <=> driver = "open"
  /\ pc \notin ScrapePcs => open_sessions = 0
  /\ pc = "chrome" => open_sessions = 0
  /\ pc = "scraped" => driver # "open"
\* the second scrape call of a batch clicked the button, got no VIN and has
\* returned with its session released
C4_Witness ==
  /\ pc = "scraped" /\ i = 1 /\ driver = "quit" /\ clicked # 0 /\ vin = None
  /\ open_sessions = 0

(* ---- C5 ---- *)
AnyNA(rec) == \E key \in Keys : key \notin DOMAIN rec \/ rec[key] = NA
\* C5: once the decode service has returned a record, get_vin_info fails
\* (returns None, queries nothing) if at least one of Make, Model, ModelYear
\* is "N/A" or missing, whatever the other two are, and it returns a vehicle
\* carrying the record's three values only when none of them is.
C5_DecodeFailsOnAnyNA ==
  record # None =>
    /\ AnyNA(record[1]) =>
         /\ pc # "enrich" /\ info = None /\ vehicle = None /\ queries = 0
    /\ ~AnyNA(record[1]) =>
         /\ vehicle = Some([make |-> record[1].Make, model |-> record[1].Model,
                            year |-> record[1].ModelYear])
         /\ pc # "enrich" =>
              /\ info # None
              /\ info[1].make = record[1].Make
              /\ info[1].model = record[1].Model
              /\ info[1].year = record[1].ModelYear
\* a record with a make and a year but no Model field was refused
C5_Witness ==
  /\ pc = "decoded" /\ record # None /\ info = None
  /\ "Model" \notin DOMAIN record[1]
  /\ "Make" \in DOMAIN record[1] /\ record[1].Make # NA
  /\ "ModelYear" \in DOMAIN record[1] /\ record[1].ModelYear # NA

(* ---- C6 ---- *)
\* the original statement: the value get_vin_info returns tells a failure
\* of the decode service from a field that is "N/A" (two failed calls with
\* different causes returned different values)
C6_FailureKindsDistinct ==
  \A f, g \in decode_failures : f.cause # g.cause => f.value # g.value
\* C6 (as amended): get_vin_info returns the same value, None, when a step
\* of the request raises and when a field is "N/A"; the two kinds differ in
\* the log record alone (error for the exception, warning for "N/A"), and
\* the caller holds None in both cases.
C6_FailureKindsInLogOnly ==
  /\ \A f \in decode_failures :
       /\ f.value = None
       /\ f.cause = "unavailable" <=> f.log = "error"
       /\ f.cause = "invalid" <=> f.log = "warning"
  /\ pc = "decoded" =>
       /\ info = None <=> decode_log # "none"
       /\ decode_log = "error" <=> record = None
       /\ decode_log = "warning" <=> (record # None /\ AnyNA(record[1]))
       /\ info = None =>
            \E f \in decode_failures : f.value = info /\ f.log = decode_log
\* in one batch the first call failed on an exception and the second on "N/A"
C6_Witness ==
  /\ mode = "batch" /\ pc = "decoded" /\ i = 1 /\ decode_log = "warning"
  /\ info = None
  /\ \E f, g \in decode_failures :
       f.cause = "unavailable" /\ g.cause = "invalid" /\ f.value = g.value

(* ---- C7 ---- *)
\* the resolution order of the claim, case by case
C7_Strips(r, t) ==
  /\ r = <<>> \/ (r[1].k # "w" /\ r[Len(r)].k # "w")
  /\ \E a, b \in {<<>>} \cup {<<W(n)>> : n \in 1..2} :
       Norm(a \o r \o b) = Norm(t) /\ (r = <<>> => b = <<>>)
C7_Resolved(key, mdl, o, r) ==
  IF key = None \/ key[1] = <<>> THEN r = <<T("API key not configured", 22)>>
  ELSE IF mdl = None THEN r = <<T("Gemini model not initialized", 28)>>
  ELSE IF o.kind = "raises"
       THEN r = Norm(<<T("Error retrieving fuel capacity: ", 32)>> \o o.text)
  ELSE IF o.kind \in {"none", "notext", "empty"}
       THEN r = <<T("Unable to retrieve fuel capacity from AI", 40)>>
  ELSE C7_Strips(r, o.text)
\* C7: get_fuel_capacity_from_gemini returns to its caller for every
\* combination of key, client and service outcome, with the string the
\* resolution order names, and queries the service at most once (not at all
\* without a key or a client).
C7_EnrichResolution ==
  /\ \A key \in ApiKeys : \A mdl \in {None, Some("GenerativeModel")} :
       /\ \A o \in GeminiOutcomes :
            C7_Resolved(key, mdl, o, GetFuelCapacity(key, mdl, o))
       /\ QueriesMade(key, mdl) <= 1
       /\ (~Truthy(key) \/ mdl = None) => QueriesMade(key, mdl) = 0
  /\ queries <= 1
  /\ (pc = "decoded" /\ vehicle # None) =>
       /\ info # None
       /\ C7_Resolved(GEMINI_API_KEY, model, outcome, info[1].fuel_capacity)
       /\ queries = (IF outcome = NoOutcome THEN 0 ELSE 1)
       /\ ~Truthy(GEMINI_API_KEY) => outcome = NoOutcome
\* the service answered with a text padded with newlines and the caller
\* got the text without them
C7_Witness ==
  /\ pc = "decoded" /\ info # None /\ queries = 1
  /\ outcome.kind = "text" /\ outcome.text # <<>> /\ outcome.text[1].k = "w"
  /\ Len(outcome.text) = 3
  /\ info[1].fuel_capacity = <<outcome.text[2]>>

(* ---- C8 ---- *)
\* C8: no chunk sent by send_batch_results is longer than 4000 characters
C8_ChunksWithinLimit ==
  \A j \in 1..Len(outbox) :
    outbox[j].kind = "chunk" => TextLen(outbox[j].text) <= MaxMessage

(* ---- C9 ---- *)
\* the chunks of the outbox from message j on, concatenated in sending order
RECURSIVE JoinChunks(_, _)
JoinChunks(msgs, j) ==
  IF j > Len(msgs) THEN <<>>
  ELSE (IF msgs[j].kind = "chunk" THEN msgs[j].text ELSE <<>>)
       \o JoinChunks(msgs, j + 1)
\* part occurs in text at token p; a run of newlines or of U+2500 at either
\* end of part may be the end or the start of a longer run of text
OccursAt(part, text, p) ==
  /\ p + Len(part) - 1 <= Len(text)
  /\ \A j \in 1..Len(part) :
       LET c == part[j]
           t == text[p + j - 1]
       IN  IF j \in {1, Len(part)} /\ c.k \in {"w", "d"}
           THEN t.k = c.k /\ t.n >= c.n
           ELSE t = c
Places(part, text) == {p \in 1..Len(text) : OccursAt(part, text, p)}
\* an item's block: what RenderItem renders before the delimiter line
Block(result) ==
  LET r == RenderItem(result) IN SubSeq(r, 1, Len(r) - 2)
\* C9: the chunks of a batch report, concatenated in the order they were
\* sent, hold every item's block exactly once, in the order of the items,
\* and after them the summary line exactly once.
C9_ChunksReproduceReport ==
  (mode = "batch" /\ pc = "idle") =>
    LET sent == Norm(JoinChunks(outbox, 1))
        at(j) == Places(Block(results[j]), sent)
        sum == Places(Summary(results), sent)
    IN  /\ \A j \in 1..Len(results) : Cardinality(at(j)) = 1
        /\ Cardinality(sum) = 1
        /\ \A j \in 1..Len(results) : \A p \in at(j) :
             /\ \A q \in sum : p < q
             /\ j < Len(results) => \A q \in at(j + 1) : p < q

(* ---- C10 ---- *)
\* C10: the strategies are tried in the order of the list, each at most
\* once; the pass that finds an element ends the search, and the click goes
\* to the element that pass found; when no pass finds one the scrape call
\* returns None and nothing was clicked; a batch item is scraped once.
C10_FirstMatchingStrategy ==
  /\ Len(tried) <= NumButtonSelectors
  /\ \A k \in 1..Len(tried) : tried[k] = k
  /\ button # 0 => button = tried[Len(tried)]
  /\ clicked # 0 => (button # 0 /\ clicked = button)
  /\ pc \in {"click", "read", "fallback"} => button # 0
  /\ pc \in {"read", "fallback"} => clicked = button
  /\ pc = "locate" => (button = 0 /\ sel = Len(tried) + 1)
  /\ (pc \in {"finally", "scraped"} /\ driver # "none" /\ button = 0
        /\ Len(tried) = NumButtonSelectors)
       => (clicked = 0 /\ vin = None)
  /\ (mode = "batch" /\ pc \in ScrapePcs) => scrapes = i + 1
\* only the third strategy found an element, and that element was clicked
C10_Witness ==
  /\ pc = "read" /\ tried = <<1, 2, 3>> /\ button = 3 /\ clicked = 3
\* every strategy failed and the scrape call returned None without a click
C10_WitnessAllFail ==
  /\ pc = "scraped" /\ Len(tried) = NumButtonSelectors /\ button = 0
  /\ clicked = 0 /\ vin = None

(* ---- C11 ---- *)
\* the permitted VIN alphabet, in either case
C11_Permitted == VinAlphabet \cup (LowerLetters \ {"i", "o", "q"})
\* C11: a text that passed the validity check of a located element has 17
\* characters, all of the permitted VIN alphabet (no I, O or Q)
C11_AcceptedIsValidVin ==
  accepted # None =>
    /\ Len(accepted[1]) = VinLen
    /\ \A j \in 1..Len(accepted[1]) : accepted[1][j] \in C11_Permitted

(* ---- C12 ---- *)
\* C12: when the manual path has ended for a VIN whose record has make,
\* model or year "N/A" (or missing), the user was sent the decoding notice
\* and then the invalid-VIN message and nothing else, and the generative
\* service was not queried.
C12_ManualInvalidVin ==
  (mode = "manual" /\ pc = "idle" /\ record # None /\ AnyNA(record[1])) =>
    /\ outbox = <<Reply("decoding", 0, 0, <<>>),
                  Reply("invalid_vin", 0, 0, <<>>)>>
    /\ queries = 0 /\ outcome = NoOutcome /\ info = None
\* the record had a make and a year, its model was "N/A", a key was
\* configured, and the user got the invalid-VIN message
C12_Witness ==
  /\ mode = "manual" /\ pc = "idle" /\ record # None
  /\ Truthy(GEMINI_API_KEY)
  /\ Get(record[1], "Make") # NA /\ Get(record[1], "ModelYear") # NA
  /\ Get(record[1], "Model") = NA
  /\ outbox[Len(outbox)].kind = "invalid_vin"

(* ---- C13 ---- *)
\* the step that records a failed decode appends the entry with the scraped
\* VIN and moves to the next index; the step that records a failed scrape
\* appends an entry without a VIN
C13_Step ==
  /\ (mode = "batch" /\ pc = "decoded" /\ info = None) =>
       /\ results' = Append(results, [index |-> i + 1, vin |-> vin[1],
                                      error |-> DecodeError])
       /\ i' = i + 1
       /\ pc' = IF i + 1 < count THEN "progress" ELSE "send"
  /\ (mode = "batch" /\ pc = "scraped") =>
       IF vin = None \/ vin[1] = <<>>
       THEN results' = Append(results, [index |-> i + 1, error |-> ScrapeError])
       ELSE results' = results /\ pc' = "decode" /\ vin' = vin
\* an entry without a VIN is a scrape failure, a failure entry with a VIN is
\* a decode failure
C13_Entries ==
  \A j \in 1..Len(results) :
    "error" \in DOMAIN results[j] =>
      IF "vin" \in DOMAIN results[j]
      THEN results[j].error = DecodeError /\ results[j].vin # <<>>
      ELSE results[j].error = ScrapeError
\* C13: a decode failure in a batch is recorded for its index with the VIN
\* that was scraped and the batch goes on with the next index; only a scrape
\* failure is recorded without a VIN.
C13_DecodeFailureKeepsVin == [](C13_Entries) /\ [][C13_Step]_vars
\* item 1 was scraped, failed to decode and was recorded with its VIN, and
\* the batch has gone on to item 2
C13_Witness ==
  /\ mode = "batch" /\ count = 2 /\ i = 1 /\ pc = "chrome"
  /\ results = <<[index |-> 1, vin |-> VIN_OK, error |-> DecodeError]>>

(* ---- C14 ---- *)
\* the integer a string of digits denotes, digit by digit from the left
C14_Value(s) ==
  LET v[j \in 0..Len(s)] ==
        IF j = 0 THEN 0
        ELSE 10 * v[j - 1] + (CHOOSE d \in 0..9 : ToString(d) = s[j])
  IN  v[Len(s)]
\* the original statement: a text of digits whose value is not 1 or 2 is
\* answered with the rejection, whatever came before it
C14_OtherNumberRejected ==
  (pc = "idle" /\ IsDigit(message_text)
     /\ C14_Value(message_text) \notin {1, 2}) =>
    outbox = <<Reply("reject_count", 0, 0, <<>>)>>
\* C14 (as amended): a batch runs only for a text of digits whose value is
\* 1 or 2, sent while the sender's flag is not set, with that value as
\* its count; outside a batch no scrape call is made and no
\* browser session is open; a text of digits with another value is
\* answered with the rejection alone unless it was decoded as a manual VIN;
\* one message makes at most 2 scrape calls.
C14_BatchOnlyForOneOrTwo ==
  /\ mode = "batch" =>
       /\ IsDigit(message_text)
       /\ C14_Value(message_text) \in {1, 2}
       /\ count = C14_Value(message_text)
  /\ mode # "batch" =>
       (scrapes = 0 /\ pc \notin ScrapePcs /\ pc # "progress"
        /\ open_sessions = 0)
  /\ (mode = "none" /\ IsDigit(message_text)) =>
       /\ C14_Value(message_text) \notin {1, 2}
       /\ pc = "idle"
       /\ outbox = <<Reply("reject_count", 0, 0, <<>>)>>
  /\ scrapes <= 2 /\ scrapes <= count
\* the text 3 was answered with the rejection
C14_Witness ==
  /\ message_text = <<"3">> /\ mode = "none" /\ pc = "idle" /\ scrapes = 0
  /\ outbox = <<Reply("reject_count", 0, 0, <<>>)>>

(* ---- C15 ---- *)
\* the progress notifications sent so far
C15_Sent == {k \in 1..Len(outbox) : outbox[k].kind = "progress"}
C15_ItemPcs == ScrapePcs \cup {"scraped", "decode", "decode_except", "enrich",
                               "decoded"}
\* C15: in a batch the messages are the start notice, then the progress
\* notifications 1/count, 2/count, ... in index order, then the report;
\* notification i is out when the scrape of item i begins and exactly i - 1
\* items are recorded then; all count notifications are out before the
\* report is sent.
C15_ProgressBeforeEachItem ==
  mode = "batch" =>
    LET sent == Cardinality(C15_Sent)
    IN  /\ outbox[1].kind = "starting"
        /\ \A k \in 1..sent : outbox[1 + k] = Reply("progress", k, count, <<>>)
        /\ scrapes = sent
        /\ pc = "progress" => (sent = i /\ Len(results) = i /\ i < count)
        /\ pc \in C15_ItemPcs => (sent = i + 1 /\ Len(results) = i)
        /\ pc = "send" =>
             (sent = count /\ Len(results) = count /\ Len(outbox) = 1 + count)
        /\ pc = "idle" =>
             /\ sent = count /\ Len(outbox) > 1 + count
             /\ \A k \in (2 + count)..Len(outbox) : outbox[k].kind = "chunk"
\* the second item of a batch of 2 is being scraped: both notifications
\* are out and one item is recorded
C15_Witness ==
  /\ mode = "batch" /\ count = 2 /\ pc = "navigate" /\ i = 1
  /\ Len(results) = 1
  /\ outbox[3] = Reply("progress", 2, 2, <<>>)

(* ---- C16 ---- *)
\* C16: a VIN that the scrape call returns has exactly 17 characters, all of
\* them letters or digits
C16_ReturnedVinHas17 ==
  (pc = "scraped" /\ vin # None) =>
    (Len(vin[1]) = VinLen /\ IsAlnum(vin[1]))

(* ---- C17 ---- *)
C17_Successes == {j \in 1..Len(results) : "info" \in DOMAIN results[j]}
C17_Failures == {j \in 1..Len(results) : "error" \in DOMAIN results[j]}
C17_Head(j) == <<T("**VIN #", 7), T(ToString(j), 1), T(":**", 3), W(1)>>
\* the lines of a success: the marker, the VIN and the four attributes
C17_SuccessLines(j) ==
  C17_Head(j) \o <<T("(check) **VIN:** ", 11), Chars(results[j].vin), W(1)>>
  \o <<T("**Make:** ", 10)>> \o results[j].info.make \o <<W(1)>>
  \o <<T("**Model:** ", 11)>> \o results[j].info.model \o <<W(1)>>
  \o <<T("**Year:** ", 10)>> \o results[j].info.year \o <<W(1)>>
  \o <<T("**Fuel Capacity:** ", 19)>>
C17_SummaryLine ==
  <<T("(chart) **Summary:** ", 15), T(ToString(Cardinality(C17_Successes)), 1),
    T("/", 1), T(ToString(count), 1), T(" VINs processed successfully", 28)>>
\* C17: the report of a batch shows as success count the number of entries
\* without an error and as total the number of entries, which is count;
\* an entry is shown with the success marker, its VIN and its four
\* attributes iff it was recorded as a success, and with the failure
\* marker otherwise; successes and failures add up to the total.
C17_SummaryCounts ==
  (mode = "batch" /\ pc = "idle") =>
    LET sent == Norm(JoinChunks(outbox, 1))
    IN  /\ Len(results) = count
        /\ Cardinality(Places(C17_SummaryLine, sent)) = 1
        /\ C17_Successes \cap C17_Failures = {}
        /\ Cardinality(C17_Successes) + Cardinality(C17_Failures) = count
        /\ \A j \in 1..Len(results) :
             /\ j \in C17_Successes <=>
                  Places(C17_Head(j) \o <<T("(check) **VIN:** ", 11)>>, sent) # {}
             /\ j \in C17_Failures <=>
                  Places(C17_Head(j) \o <<T("(cross) ", 2)>>, sent) # {}
             /\ j \in C17_Successes =>
                  Cardinality(Places(C17_SuccessLines(j), sent)) = 1
\* a report of one success and one failure was sent
C17_Witness ==
  /\ mode = "batch" /\ pc = "idle" /\ count = 2
  /\ "info" \in DOMAIN results[1] /\ "error" \in DOMAIN results[2]

(* ---- C18 ---- *)
C18_IsPrompt(msgs) == msgs # <<>> /\ msgs[1].kind = "prompt_vin"
\* what one update does to the flags and where it is routed
C18_Step ==
  /\ pc # "idle" => expecting_vin' = expecting_vin
  /\ (pc = "idle" /\ C18_IsPrompt(outbox')) =>
       /\ expecting_vin' = [expecting_vin EXCEPT ![user'] = TRUE]
       /\ pc' = "idle" /\ scrapes' = 0
  /\ (pc = "idle" /\ ~C18_IsPrompt(outbox')) =>
       IF expecting_vin[user']
       THEN /\ expecting_vin' = [expecting_vin EXCEPT ![user'] = FALSE]
            /\ mode' = "manual" /\ pc' = "decode"
            /\ vin' = Some(message_text')
       ELSE /\ expecting_vin' = expecting_vin
            /\ mode' \in {"batch", "none"}
            /\ mode' = "batch" <=>
                 (IsDigit(message_text') /\ C14_Value(message_text') \in {1, 2})
\* while a manual VIN is decoded and after it, the flag is cleared and
\* nothing is scraped
C18_Manual ==
  mode = "manual" =>
    /\ ~expecting_vin[user]
    /\ scrapes = 0 /\ open_sessions = 0
    /\ pc \in {"decode", "decode_except", "enrich", "decoded", "idle"}
\* C18: after /checkvin the next text of that user, whatever it is, is
\* decoded as a manual VIN with the flag cleared first; the flag stays
\* cleared until the next /checkvin of that user, and a text of a user whose
\* flag is not set is routed by the batch-count rule.
C18_FlagIsOneShot == [](C18_Manual) /\ [][C18_Step]_vars
\* the text 1 sent after /checkvin was decoded as a VIN, and failed
C18_Witness ==
  /\ mode = "manual" /\ pc = "idle" /\ vin = Some(<<"1">>)
  /\ ~expecting_vin[user] /\ scrapes = 0
  /\ outbox[Len(outbox)].kind = "invalid_vin"

====
